---------------------------- MODULE Spec2Model ----------------------------
(***************************************************************************)
(* A model of PAIR-code/auto-histograms: the LRU embeddings cache and its  *)
(* manager (src/embeddings_manager.py) and the clustering and labeling     *)
(* engine (src/cluster.py).                                                *)
(*                                                                         *)
(* The module holds several specifications, one per component, over one    *)
(* set of variables; each specification leaves the variables of the other  *)
(* components at their idle values.                                        *)
(*   SpecLRU      a bare LRUCache under any sequence of get and put        *)
(*   SpecMgr      an EmbeddingsManager, its cache file and its models      *)
(*   SpecClusters _get_clusters over every linkage tree                    *)
(*   SpecCentroid _combine_clusters_using_centroids                        *)
(*   SpecLabel    _label_and_combine_clusters                              *)
(***************************************************************************)
EXTENDS Integers, Sequences, FiniteSets, TLC

VARIABLES
  cache,      \* LRUCache.cache: the OrderedDict, oldest entry first
  capacity,   \* LRUCache.capacity
  recency,    \* history: the resident keys by the time of their last use
  hist,       \* history: the last operations on the LRUCache, newest last
  model,      \* EmbeddingsManager._model: the live model, None without a manager
  dir,        \* whether the cache directory exists
  file,       \* the cache file cache.npy in the cache directory
  flushed,    \* history: <<the entries and identity at the last flush>>
  mlast,      \* history: the last operation on the manager
  pc,         \* the position in the function a clustering specification runs
  entities,   \* entities: the deduplicated entity array
  linkage_tree,       \* the tree hierarchy.linkage returned
  k,                  \* _get_clusters: the loop variable, the cut count
  all_clusters_dict,  \* _get_clusters: the clusters recorded, by key
  skipped,            \* history: how many flat clusters were left out as seen
  all_clusters,       \* the list of clusters: returned by _get_clusters,
                      \* then the argument of the functions that follow it
  entity_embs,        \* the embedding of every entity, by position
  candidates,         \* history: all_clusters as the centroid merge got it
  cluster_centroids,  \* centroid merge: the centroid of every cluster
  ci,                 \* centroid merge: the outer loop's index i, from 1
  deduped_clusters,   \* centroid merge: the clusters to return
  combined_indices,   \* centroid merge: the indices merged into another
  merged_into,        \* history: for every index, the index it was merged into
  entity_counts,      \* labeling: the occurrence count of every entity
  li,                 \* labeling: the index of the next cluster, from 1
  histograms,         \* labeling: the histogram, by description
  labeled,            \* history: the clusters labeled and their descriptions
  loaded,             \* history: the mapping the LRUCache was constructed
                      \* from, until its first operation
  trail,              \* history: the persisted keys of the cache just loaded and
                      \* the first keys evicted, while only new texts are embedded
  exemplar_embs,      \* get_examples_of_label: embs, the exemplars' embeddings
  knn_order,          \* the neighbor index: the entities by distance to the
                      \* exemplars' mean, nearest first
  queries,            \* history: the last calls of get_examples_of_label
  duplicated_entities,  \* make_histograms: the entities with their repeats
  top_k,              \* <<what take_top_k returned>>, <<>> before the call
  ppc,                \* run_pipeline: the position in the function
  has_column,         \* whether the csv has the column to annotate
  embedder,           \* AutomaticHistograms._embedder
  out_dir,            \* the output directory: whether it exists, its files
  out_before,         \* history: the output directory when the run began
  effects,            \* history: what the run did to the output directory
  error               \* the error that ended the run, "" if none

lruVars == <<cache, capacity, recency, hist, loaded>>

mgrVars == <<model, dir, file, flushed, mlast, trail>>

gcVars ==
  <<pc, entities, linkage_tree, k, all_clusters_dict, skipped, all_clusters>>

cmVars ==
  <<entity_embs, candidates, cluster_centroids, ci, deduped_clusters,
    combined_indices, merged_into>>

lbVars == <<entity_counts, li, histograms, labeled>>

clusterVars == <<gcVars, cmVars, lbVars>>

exVars == <<exemplar_embs, knn_order, queries>>

tkVars == <<duplicated_entities, top_k>>

plVars ==
  <<ppc, has_column, embedder, out_dir, out_before, effects, error>>

otherVars == <<exVars, tkVars, plVars>>

vars == <<lruVars, mgrVars, gcVars, cmVars, lbVars, otherVars>>

\* Python's None: an absent value.
None == "None"

------------------------------------------------------------------------------
(* Bounds and input domains                                                *)

\* The largest capacity an LRUCache is constructed with in SpecLRU.
MaxCapacity == 3

\* The largest persisted mapping an LRUCache is constructed from in SpecLRU.
MaxData == 2

\* The capacity of the manager's cache: stands for _MAX_CACHE_ENTRIES = 50_000
\* (src/embeddings_manager.py:34).
MAX_CACHE_ENTRIES == 2

\* The longest list of texts passed to embed_all.
MaxTexts == 2

\* The largest number of entities that are clustered.
MaxEntities == 5

\* The smallest and largest flat cluster that is recorded in the clustering
\* specifications. They stand for 3 and 15 (src/cluster.py:64): among up to
\* 2000 entities most clusters of the tree have more than 15 members and
\* are left out, and the small universes here show the same with a window
\* scaled down to them.
MinClusterSize == 2

MaxClusterSize == 3

\* SIMILARITY_THRESHOLD = 0.05 = 1 / 20: the denominator.
SIMILARITY_THRESHOLD_INV == 20

\* Cache keys: the texts that are embedded.
Texts == {"a", "b", "c", "d"}

\* The texts a manager is asked to embed.
MgrTexts == {"a", "b", "c"}

\* Embedding vectors (np.ndarray of a fixed dimension).
Vectors == {<<1, 0>>, <<0, 1>>}

------------------------------------------------------------------------------
(* collections.OrderedDict, as a sequence of entries [k, v], oldest first  *)

Keys(c) == {c[i].k : i \in 1..Len(c)}

KeyList(c) == [i \in 1..Len(c) |-> c[i].k]

IndexOf(c, key) == CHOOSE i \in 1..Len(c) : c[i].k = key

Lookup(c, key) == c[IndexOf(c, key)].v

Entries(c) == {<<c[i].k, c[i].v>> : i \in 1..Len(c)}

RemoveAt(c, i) == SubSeq(c, 1, i - 1) \o SubSeq(c, i + 1, Len(c))

\* OrderedDict.move_to_end(key): the entry becomes the last one.
move_to_end(c, key) ==
  LET i == IndexOf(c, key) IN Append(RemoveAt(c, i), c[i])

\* OrderedDict.__setitem__: a resident key keeps its place, a new key is
\* appended.
setitem(c, key, value) ==
  IF key \in Keys(c)
    THEN [c EXCEPT ![IndexOf(c, key)] = [k |-> key, v |-> value]]
    ELSE Append(c, [k |-> key, v |-> value])

\* OrderedDict.popitem(last=False): drops the first entry.
popitem_first(c) == Tail(c)

------------------------------------------------------------------------------
(* LRUCache                                                                *)

\* A get that reads without promoting the key.
LRUCache_get_NoPromote(c, key) ==
  IF key \notin Keys(c)
    THEN [cache |-> c, ret |-> None]
    ELSE [cache |-> c, ret |-> Lookup(c, key)]

\* LRUCache.get: [cache after, value returned].
LRUCache_get(c, key) ==
  IF key \notin Keys(c)
    THEN [cache |-> c, ret |-> None]
    ELSE LET c1 == move_to_end(c, key)
         IN  [cache |-> c1, ret |-> Lookup(c1, key)]

\* A put that never evicts.
LRUCache_put_NoEvict(c, cap, key, value) ==
  LET c1 == IF key \in Keys(c) THEN move_to_end(c, key) ELSE c
  IN  setitem(c1, key, value)

\* A put that evicts the most recently used entry below the new one.
LRUCache_put_EvictNewest(c, cap, key, value) ==
  LET c1 == IF key \in Keys(c) THEN move_to_end(c, key) ELSE c
      c2 == setitem(c1, key, value)
  IN  IF Len(c2) > cap THEN RemoveAt(c2, Len(c2) - 1) ELSE c2

\* LRUCache.put: the cache after.
LRUCache_put(c, cap, key, value) ==
  LET c1 == IF key \in Keys(c) THEN move_to_end(c, key) ELSE c
      c2 == setitem(c1, key, value)
  IN  IF Len(c2) > cap THEN popitem_first(c2) ELSE c2

\* An initialize that stops replaying once the cache is full.
RECURSIVE LRUCache_initialize_KeepFirst(_, _, _)
LRUCache_initialize_KeepFirst(c, cap, data) ==
  IF data = <<>> \/ Len(c) >= cap
    THEN c
    ELSE LRUCache_initialize_KeepFirst(
           LRUCache_put(c, cap, Head(data).k, Head(data).v), cap, Tail(data))

\* LRUCache.initialize: every entry of data is replayed through put, in
\* the mapping's order.
RECURSIVE LRUCache_initialize(_, _, _)
LRUCache_initialize(c, cap, data) ==
  IF data = <<>>
    THEN c
    ELSE LRUCache_initialize(
           LRUCache_put(c, cap, Head(data).k, Head(data).v), cap, Tail(data))

\* LRUCache.__init__: an empty OrderedDict, then initialize(data).
LRUCache_init(cap, data) == LRUCache_initialize(<<>>, cap, data)

------------------------------------------------------------------------------
(* History kept beside the LRUCache                                        *)

\* The keys by last use: key is used now.
Touch(r, key) == Append(SelectSeq(r, LAMBDA x : x # key), key)

\* The recency order of the keys that are still resident.
Resident(r, c) == SelectSeq(r, LAMBDA x : x \in Keys(c))

RECURSIVE TouchAll(_, _)
TouchAll(r, ks) == IF ks = <<>> THEN r ELSE TouchAll(Touch(r, Head(ks)), Tail(ks))

\* The last two operations.
Remember(h, rec) == IF Len(h) < 2 THEN Append(h, rec) ELSE <<h[2], rec>>

\* Persisted mappings (dict[str, T]): sequences of entries with distinct keys.
RECURSIVE SeqsUpTo(_, _)
SeqsUpTo(S, n) ==
  IF n = 0 THEN {<<>>}
  ELSE LET shorter == SeqsUpTo(S, n - 1)
       IN  shorter \cup {Append(s, x) : s \in shorter, x \in S}

Distinct(s) == \A i, j \in 1..Len(s) : i # j => s[i] # s[j]

Mappings(n) ==
  {d \in SeqsUpTo([k : Texts, v : Vectors], n) : Distinct(KeyList(d))}

------------------------------------------------------------------------------
(* SpecLRU: a bare LRUCache                                                *)

\* No operation on a manager yet.
NoOp ==
  [op |-> "none", id |-> None, arg |-> None, ret |-> None, calls |-> <<>>,
   embeds |-> <<>>, raised |-> FALSE, cacheBefore |-> <<>>,
   fileBefore |-> None]

\* No cache was loaded.
NoTrail == [persisted |-> <<>>, pure |-> FALSE, evicted |-> <<>>]

IdleMgr ==
  /\ model = None
  /\ dir = FALSE
  /\ file = None
  /\ flushed = <<>>
  /\ mlast = NoOp
  /\ trail = NoTrail

IdleExamples ==
  /\ exemplar_embs = <<>>
  /\ knn_order = <<>>
  /\ queries = <<>>

IdleTopK ==
  /\ duplicated_entities = <<>>
  /\ top_k = <<>>

\* No output directory.
NoDir == [exists |-> FALSE, files |-> {}]

IdlePipeline ==
  /\ ppc = "idle"
  /\ has_column = FALSE
  /\ embedder = None
  /\ out_dir = NoDir
  /\ out_before = NoDir
  /\ effects = <<>>
  /\ error = ""

IdleOther == IdleExamples /\ IdleTopK /\ IdlePipeline

IdleClusters ==
  /\ pc = "idle"
  /\ entities = <<>>
  /\ linkage_tree = <<>>
  /\ k = 0
  /\ all_clusters_dict = <<>>
  /\ skipped = 0
  /\ all_clusters = <<>>

IdleCentroid ==
  /\ entity_embs = <<>>
  /\ candidates = <<>>
  /\ cluster_centroids = <<>>
  /\ ci = 0
  /\ deduped_clusters = <<>>
  /\ combined_indices = <<>>
  /\ merged_into = <<>>

IdleLabel ==
  /\ entity_counts = <<>>
  /\ li = 0
  /\ histograms = <<>>
  /\ labeled = <<>>

InitLRU ==
  /\ IdleOther
  /\ IdleMgr
  /\ IdleClusters
  /\ IdleCentroid
  /\ IdleLabel
  /\ capacity \in 1..MaxCapacity
  /\ \E data \in Mappings(MaxData) :
       /\ cache = LRUCache_init(capacity, data)
       /\ loaded = data
       /\ recency = Resident(TouchAll(<<>>, KeyList(data)), cache)
  /\ hist = <<>>

Get(key) ==
  LET g == LRUCache_get(cache, key)
  IN  /\ cache' = g.cache
      /\ recency' = IF key \in Keys(cache) THEN Touch(recency, key) ELSE recency
      /\ hist' = Remember(hist, [op |-> "get", key |-> key, ret |-> g.ret,
                                 before |-> cache, lru |-> recency])
      /\ loaded' = <<>>
      /\ UNCHANGED <<capacity, mgrVars, clusterVars, otherVars>>

Put(key, value) ==
  /\ cache' = LRUCache_put(cache, capacity, key, value)
  /\ recency' = Resident(Touch(recency, key), cache')
  /\ hist' = Remember(hist, [op |-> "put", key |-> key, ret |-> None,
                             before |-> cache, lru |-> recency])
  /\ loaded' = <<>>
  /\ UNCHANGED <<capacity, mgrVars, clusterVars, otherVars>>

NextLRU ==
  \/ \E key \in Texts : Get(key)
  \/ \E key \in Texts, value \in Vectors : Put(key, value)

SpecLRU == InitLRU /\ [][NextLRU]_vars


------------------------------------------------------------------------------
(* Embedding models (Embedder)                                             *)

\* The live models: the universal sentence encoder, which offers
\* embed_batch; the external embedder, which does not; and the external
\* embedder after its service changed the vectors of some texts under the
\* same name.
ModelIds == {"use", "gecko", "gecko_changed"}

UseTable ==
  [t \in Texts |-> CASE t = "a" -> <<1, 0>> [] t = "b" -> <<0, 1>>
                     [] t = "c" -> <<1, 1>> [] OTHER -> <<2, 1>>]

GeckoTable ==
  [t \in Texts |-> CASE t = "a" -> <<2, 0>> [] t = "b" -> <<0, 2>>
                     [] t = "c" -> <<2, 2>> [] OTHER -> <<1, 2>>]

GeckoChangedTable ==
  [t \in Texts |-> CASE t = "a" -> <<2, 0>> [] t = "b" -> <<0, 3>>
                     [] t = "c" -> <<2, 2>> [] OTHER -> <<1, 3>>]

\* Embedder.name, Embedder.embed (as a table) and whether the class defines
\* embed_batch.
Model(id) ==
  CASE id = "use" ->
         [name |-> "USE model", batch |-> TRUE, table |-> UseTable]
    [] id = "gecko" ->
         [name |-> "models/embedding-gecko-001", batch |-> FALSE,
          table |-> GeckoTable]
    [] OTHER ->
         [name |-> "models/embedding-gecko-001", batch |-> FALSE,
          table |-> GeckoChangedTable]

\* EmbeddingsManager._model_embed.
model_embed(m, text) == m.table[text]

\* USEEmbedder.embed_batch.
embed_batch(m, texts) == [i \in 1..Len(texts) |-> m.table[texts[i]]]

\* cached_embedding == model embedding, element-wise, and .all().
MatchAll(x, y) == \A i \in 1..Len(x) : x[i] = y[i]

------------------------------------------------------------------------------
(* The cache file: np.save writes the dict as a 0-d object array, and       *)
(* np.load(...).item() takes the dict out of it                             *)

np_save(data) == <<data>>

np_load_item(f) == f[1]

------------------------------------------------------------------------------
(* EmbeddingsManager                                                       *)

\* A compatibility check that compares the identities only.
assert_compatibility_NameOnly(m, c, model_name) ==
  [raised |-> m.name # model_name, cache |-> c]

\* A compatibility check that reads the first key without going through
\* LRUCache.get, leaving the recency order as loaded.
assert_compatibility_Peek(m, c, model_name) ==
  IF m.name # model_name
    THEN [raised |-> TRUE, cache |-> c]
    ELSE IF KeyList(c) = <<>>
      THEN [raised |-> FALSE, cache |-> c]
      ELSE LET first_key == KeyList(c)[1]
           IN  [raised |-> ~MatchAll(Lookup(c, first_key),
                                     model_embed(m, first_key)),
                cache |-> c]

\* assert_compatibility: [raised, cache after]. The first key is read through
\* LRUCache.get.
assert_compatibility(m, c, model_name) ==
  IF m.name # model_name
    THEN [raised |-> TRUE, cache |-> c]
    ELSE IF KeyList(c) = <<>>
      THEN [raised |-> FALSE, cache |-> c]
      ELSE LET first_key == KeyList(c)[1]
               g == LRUCache_get(c, first_key)
           IN  IF g.ret # None
                 THEN [raised |-> ~MatchAll(g.ret, model_embed(m, first_key)),
                       cache |-> g.cache]
                 ELSE [raised |-> FALSE, cache |-> g.cache]

\* A load that never finds the cache file and starts from an empty cache.
load_or_create_embeddings_cache_AlwaysCreate(m, f) ==
  assert_compatibility(m, LRUCache_init(MAX_CACHE_ENTRIES, <<>>), m.name)

\* _load_or_create_embeddings_cache: [raised, cache after].
load_or_create_embeddings_cache(m, f) ==
  LET data == IF f # None
                THEN np_load_item(f)
                ELSE [cache |-> <<>>, model_name |-> m.name]
      loaded_cache == data.cache
      lru == LRUCache_init(MAX_CACHE_ENTRIES, loaded_cache)
  IN  assert_compatibility(m, lru, data.model_name)

\* update_embeddings_cache: the file written.
update_embeddings_cache(m, c) ==
  np_save([cache |-> c, model_name |-> m.name])

\* An embed that does not store what the model returned.
EmbeddingsManager_embed_NoStore(m, c, text) ==
  LET g == LRUCache_get(c, text)
  IN  IF g.ret # None
        THEN [cache |-> g.cache, ret |-> g.ret, calls |-> <<>>]
        ELSE [cache |-> g.cache, ret |-> model_embed(m, text),
              calls |-> <<text>>]

\* EmbeddingsManager.embed: [cache after, ret, calls], calls being the texts
\* the model was asked to embed.
EmbeddingsManager_embed(m, c, text) ==
  LET g == LRUCache_get(c, text)
  IN  IF g.ret # None
        THEN [cache |-> g.cache, ret |-> g.ret, calls |-> <<>>]
        ELSE LET emb == model_embed(m, text)
             IN  [cache |-> LRUCache_put(g.cache, MAX_CACHE_ENTRIES, text, emb),
                  ret |-> emb, calls |-> <<text>>]

\* The list comprehension of embed_all: embed, text by text, from the left.
\* [cache, ret, calls, embeds], embeds being the texts embed was called with.
RECURSIVE EmbedEach(_, _, _)
EmbedEach(m, acc, texts) ==
  IF texts = <<>>
    THEN acc
    ELSE LET e == EmbeddingsManager_embed(m, acc.cache, Head(texts))
         IN  EmbedEach(m,
                       [cache |-> e.cache,
                        ret |-> Append(acc.ret, e.ret),
                        calls |-> acc.calls \o e.calls,
                        embeds |-> Append(acc.embeds, Head(texts))],
                       Tail(texts))

\* An embed_all that embeds text by text whatever the model offers.
EmbeddingsManager_embed_all_NeverBatch(m, c, texts) ==
  EmbedEach(m, [cache |-> c, ret |-> <<>>, calls |-> <<>>, embeds |-> <<>>],
            texts)

\* EmbeddingsManager.embed_all: the model's embed_batch when it has one;
\* the AttributeError of a model without it is caught and embed is called
\* per text.
EmbeddingsManager_embed_all(m, c, texts) ==
  IF m.batch
    THEN [cache |-> c, ret |-> embed_batch(m, texts), calls |-> <<>>,
          embeds |-> <<>>]
    ELSE EmbedEach(m, [cache |-> c, ret |-> <<>>, calls |-> <<>>,
                       embeds |-> <<>>], texts)

------------------------------------------------------------------------------
(* SpecMgr: managers are constructed on one cache directory, used, and     *)
(* dropped when their process ends                                         *)

IdleLRU == recency = <<>> /\ hist = <<>> /\ loaded = <<>>

InitMgr ==
  /\ IdleOther
  /\ IdleMgr
  /\ IdleLRU
  /\ IdleClusters
  /\ IdleCentroid
  /\ IdleLabel
  /\ cache = <<>>
  /\ capacity = MAX_CACHE_ENTRIES

OpRecord(op, id, arg, ret, calls, embeds, raised) ==
  [op |-> op, id |-> id, arg |-> arg, ret |-> ret, calls |-> calls,
   embeds |-> embeds, raised |-> raised,
   cacheBefore |-> cache, fileBefore |-> file]

\* EmbeddingsManager(model, cache_directory).
Construct(id) ==
  /\ model = None
  /\ LET r == load_or_create_embeddings_cache(Model(id), file)
     IN  /\ dir' = TRUE
         /\ model' = IF r.raised THEN None ELSE id
         /\ cache' = IF r.raised THEN <<>> ELSE r.cache
         /\ mlast' = OpRecord("construct", id, None, None, <<>>, <<>>, r.raised)
         /\ trail' = IF r.raised \/ file = None
                        THEN NoTrail
                        ELSE [persisted |-> KeyList(np_load_item(file).cache),
                              pure |-> TRUE, evicted |-> <<>>]
  /\ UNCHANGED <<file, flushed, capacity, recency, hist, loaded,
                 clusterVars, otherVars>>

Embed(text) ==
  /\ model # None
  /\ LET e == EmbeddingsManager_embed(Model(model), cache, text)
     IN  /\ cache' = e.cache
         /\ mlast' = OpRecord("embed", model, text, e.ret, e.calls, <<>>, FALSE)
         /\ trail' = IF trail.pure /\ trail.evicted = <<>>
                           /\ text \notin Keys(cache)
                        THEN [trail EXCEPT !.evicted =
                                SelectSeq(KeyList(cache),
                                          LAMBDA x : x \notin Keys(e.cache))]
                        ELSE NoTrail
  /\ UNCHANGED <<model, dir, file, flushed, capacity, recency, hist, loaded,
                 clusterVars, otherVars>>

EmbedAll(texts) ==
  /\ model # None
  /\ LET e == EmbeddingsManager_embed_all(Model(model), cache, texts)
     IN  /\ cache' = e.cache
         /\ mlast' = OpRecord("embed_all", model, texts, e.ret, e.calls,
                              e.embeds, FALSE)
         /\ trail' = NoTrail
  /\ UNCHANGED <<model, dir, file, flushed, capacity, recency, hist, loaded,
                 clusterVars, otherVars>>

\* update_embeddings_cache().
Flush ==
  /\ model # None
  /\ file' = update_embeddings_cache(Model(model), cache)
  /\ flushed' = <<[entries |-> Entries(cache),
                  model_name |-> Model(model).name, by |-> model]>>
  /\ mlast' = OpRecord("flush", model, None, None, <<>>, <<>>, FALSE)
  /\ trail' = NoTrail
  /\ UNCHANGED <<model, dir, cache, capacity, recency, hist, loaded,
                 clusterVars, otherVars>>

\* The process that owns the manager ends; nothing is written.
Close ==
  /\ model # None
  /\ model' = None
  /\ cache' = <<>>
  /\ mlast' = OpRecord("close", model, None, None, <<>>, <<>>, FALSE)
  /\ trail' = NoTrail
  /\ UNCHANGED <<dir, file, flushed, capacity, recency, hist, loaded,
                 clusterVars, otherVars>>

NextMgr ==
  \/ \E id \in ModelIds : Construct(id)
  \/ \E text \in MgrTexts : Embed(text)
  \/ \E texts \in SeqsUpTo(MgrTexts, MaxTexts) : EmbedAll(texts)
  \/ Flush
  \/ Close

SpecMgr == InitMgr /\ [][NextMgr]_vars

------------------------------------------------------------------------------
(* _get_clusters (src/cluster.py)                                          *)

\* The entity strings, in the order of the entities array. Entities are
\* deduplicated, so they are distinct.
EntityPool == <<"a", "bc", "ab", "c", "d", "e", "f">>

Singletons(n) == {{i} : i \in 1..n}

\* The trees over a partition P: every sequence of partitions that starts
\* with P, merges two blocks at each step and ends with a single block.
RECURSIVE Coarsenings(_)
Coarsenings(P) ==
  IF Cardinality(P) <= 1
    THEN {<<P>>}
    ELSE UNION {{<<P>> \o t : t \in Coarsenings((P \ {A, B}) \cup {A \cup B})} :
                <<A, B>> \in {x \in P \X P : x[1] # x[2]}}

\* hierarchy.linkage: an agglomerative tree over n observations, the result
\* of a library that is not part of the repository: any tree.
Linkages(n) == Coarsenings(Singletons(n))

\* The flat clusters of the cut of the tree into c clusters.
CutBlocks(tree, c) == tree[Len(tree) - c + 1]

MinOf(S) == CHOOSE x \in S : \A y \in S : x <= y

BlockOf(blocks, x) == CHOOSE B \in blocks : x \in B

\* hierarchy.fcluster(tree, c, criterion='maxclust'): the label, from 1, of
\* every observation; the flat clusters are numbered by their first member.
fcluster(tree, c) ==
  LET blocks == CutBlocks(tree, c)
  IN  [x \in 1..Len(tree) |->
         1 + Cardinality({B \in blocks : MinOf(B) < MinOf(BlockOf(blocks, x))})]

\* The cuts fcluster may return for the cut count kk. For kk = 0 no cut has
\* at most kk clusters and the library's answer is not defined: any cut.
CutCounts(tree, kk) == IF kk = 0 THEN 1..Len(tree) ELSE {kk}

MaxLabel(labels) ==
  CHOOSE m \in {labels[x] : x \in DOMAIN labels} :
    \A x \in DOMAIN labels : labels[x] <= m

\* entities[cluster_labels == i]: the entities with label i, in array order.
RECURSIVE Masked(_, _, _, _)
Masked(ents, labels, i, from) ==
  IF from > Len(ents)
    THEN <<>>
    ELSE (IF labels[from] = i THEN <<ents[from]>> ELSE <<>>)
           \o Masked(ents, labels, i, from + 1)

\* ''.join(cluster).
RECURSIVE Join(_)
Join(cluster) ==
  IF cluster = <<>> THEN "" ELSE Head(cluster) \o Join(Tail(cluster))

\* A loop body that records every flat cluster in the size window, seen
\* before or not.
RecordCluster_NoSeenCheck(acc, cluster, lo, hi) ==
  IF Len(cluster) < lo \/ Len(cluster) > hi
    THEN acc
    ELSE [dict |-> Append(acc.dict, [k |-> Join(cluster), v |-> cluster]),
          skipped |-> acc.skipped]

\* The body of the inner loop for one flat cluster, on [dict, skipped].
RecordCluster(acc, cluster, lo, hi) ==
  IF Len(cluster) < lo \/ Len(cluster) > hi
    THEN acc
    ELSE LET key == Join(cluster)
         IN  IF key \in Keys(acc.dict)
               THEN [dict |-> acc.dict, skipped |-> acc.skipped + 1]
               ELSE [dict |-> setitem(acc.dict, key, cluster),
                     skipped |-> acc.skipped]

\* for i in range(max(cluster_labels) + 1), from i on.
RECURSIVE RecordLabels(_, _, _, _, _, _)
RecordLabels(acc, ents, labels, i, lo, hi) ==
  IF i > MaxLabel(labels)
    THEN acc
    ELSE RecordLabels(RecordCluster(acc, Masked(ents, labels, i, 1), lo, hi),
                      ents, labels, i + 1, lo, hi)

\* [list(c) for c in all_clusters_dict.values()].
Values(dict) == [i \in 1..Len(dict) |-> dict[i].v]

------------------------------------------------------------------------------
(* SpecClusters: one call of _get_clusters                                 *)

IdleCache ==
  /\ cache = <<>>
  /\ capacity = 0
  /\ IdleLRU

InitClusters ==
  /\ IdleOther
  /\ IdleMgr
  /\ IdleCache
  /\ IdleCentroid
  /\ IdleLabel
  /\ pc = "linkage"
  /\ \E n \in 2..MaxEntities : entities = SubSeq(EntityPool, 1, n)
  /\ linkage_tree = <<>>
  /\ k = 0
  /\ all_clusters_dict = <<>>
  /\ skipped = 0
  /\ all_clusters = <<>>

\* linkage_tree = hierarchy.linkage(emb_distances, 'median').
Linkage ==
  /\ pc = "linkage"
  /\ linkage_tree' \in Linkages(Len(entities))
  /\ pc' = "cut"
  /\ UNCHANGED <<entities, k, all_clusters_dict, skipped, all_clusters>>
  /\ UNCHANGED <<otherVars, lruVars, mgrVars, cmVars, lbVars>>

\* One pass of the loop over k: the cut, then the loop over its labels.
Cut ==
  /\ pc = "cut"
  /\ k < Len(entities)
  /\ \E c \in CutCounts(linkage_tree, k) :
       LET cluster_labels == fcluster(linkage_tree, c)
           r == RecordLabels([dict |-> all_clusters_dict, skipped |-> skipped],
                             entities, cluster_labels, 0,
                             MinClusterSize, MaxClusterSize)
       IN  /\ all_clusters_dict' = r.dict
           /\ skipped' = r.skipped
  /\ k' = k + 1
  /\ UNCHANGED <<pc, entities, linkage_tree, all_clusters>>
  /\ UNCHANGED <<otherVars, lruVars, mgrVars, cmVars, lbVars>>

\* The loop is over: return the recorded clusters as lists.
ReturnClusters ==
  /\ pc = "cut"
  /\ k = Len(entities)
  /\ all_clusters' = Values(all_clusters_dict)
  /\ pc' = "done"
  /\ UNCHANGED <<entities, linkage_tree, k, all_clusters_dict, skipped>>
  /\ UNCHANGED <<otherVars, lruVars, mgrVars, cmVars, lbVars>>

NextClusters == Linkage \/ Cut \/ ReturnClusters

SpecClusters == InitClusters /\ [][NextClusters]_vars

------------------------------------------------------------------------------
(* _combine_clusters_using_centroids (src/cluster.py)                      *)

\* _get_clusters as one function of the tree and of the cut that fcluster
\* returns for k = 0: the loop over k, from kk on.
RECURSIVE GetClustersFrom(_, _, _, _, _, _, _)
GetClustersFrom(acc, ents, tree, kk, c0, lo, hi) ==
  IF kk >= Len(ents)
    THEN Values(acc.dict)
    ELSE GetClustersFrom(
           RecordLabels(acc, ents, fcluster(tree, IF kk = 0 THEN c0 ELSE kk),
                        0, lo, hi),
           ents, tree, kk + 1, c0, lo, hi)

get_clusters(ents, tree, c0, lo, hi) ==
  GetClustersFrom([dict |-> <<>>, skipped |-> 0], ents, tree, 0, c0, lo, hi)

\* The embeddings of the entities of EntityPool, by position. In the first
\* the first two entities point one way, the next two about 17 degrees off
\* and the fifth about 11 degrees off to the other side; in the second the
\* entities point in directions far from each other; in the third they all
\* point the same way.
EmbeddingChoices ==
  { << <<5, 0>>, <<5, 0>>, <<10, 3>>, <<10, 3>>, <<5, -1>>, <<0, 5>>, <<-5, 0>> >>,
    << <<1, 0>>, <<0, 1>>, <<-1, 0>>, <<0, -1>>, <<1, 0>>, <<0, 1>>, <<-1, 0>> >>,
    << <<1, 1>>, <<2, 2>>, <<1, 1>>, <<3, 3>>, <<1, 1>>, <<2, 2>>, <<1, 1>> >> }

Range(s) == {s[x] : x \in 1..Len(s)}

\* embs_dict[e].
EmbOf(ents, embs, e) == embs[CHOOSE x \in 1..Len(ents) : ents[x] = e]

Dot(u, v) == u[1] * v[1] + u[2] * v[2]

RECURSIVE SumEmbs(_, _, _)
SumEmbs(cluster, ents, embs) ==
  IF cluster = <<>>
    THEN <<0, 0>>
    ELSE LET e == EmbOf(ents, embs, Head(cluster))
             rest == SumEmbs(Tail(cluster), ents, embs)
         IN  <<e[1] + rest[1], e[2] + rest[2]>>

\* np.mean(cluster_embs, axis=0): the mean is sum / n, kept as the pair.
Centroid(cluster, ents, embs) ==
  [sum |-> SumEmbs(cluster, ents, embs), n |-> Len(cluster)]

\* get_embedding_matrix(...)[i, j] < SIMILARITY_THRESHOLD for two centroids:
\* 1 - cos < 1/20, the cosine of the means being that of the sums
\* (normalizing cancels the division by n). In integers:
\* cos > 19/20 iff dot > 0 and (20 dot)^2 > 19^2 |s1|^2 |s2|^2. A centroid
\* of norm 0 makes the distance NaN, and the comparison false.
SimBelowThreshold(c1, c2) ==
  LET d == Dot(c1.sum, c2.sum)
      den == SIMILARITY_THRESHOLD_INV
      keep == SIMILARITY_THRESHOLD_INV - 1
  IN  /\ d > 0
      /\ (den * d) * (den * d) >
           keep * keep * Dot(c1.sum, c1.sum) * Dot(c2.sum, c2.sum)

\* An inner loop body that also takes in a close cluster that an earlier
\* cluster has consumed.
CombineStep_IgnoreConsumed(acc, i, j, clusters, centroids) ==
  IF i >= j
    THEN acc
    ELSE IF SimBelowThreshold(centroids[i], centroids[j])
      THEN [cluster |-> acc.cluster \o clusters[j],
            combined |-> Append(acc.combined, j)]
      ELSE acc

\* An inner loop body that marks a close cluster as combined and leaves its
\* members out.
CombineStep_MarkOnly(acc, i, j, clusters, centroids) ==
  IF i >= j \/ j \in Range(acc.combined)
    THEN acc
    ELSE IF SimBelowThreshold(centroids[i], centroids[j])
      THEN [cluster |-> acc.cluster, combined |-> Append(acc.combined, j)]
      ELSE acc

\* The body of the inner loop for one j, on [cluster, combined]: cluster is
\* deduped_cluster, combined is combined_indices.
CombineStep(acc, i, j, clusters, centroids) ==
  IF i >= j \/ j \in Range(acc.combined)
    THEN acc
    ELSE IF SimBelowThreshold(centroids[i], centroids[j])
      THEN [cluster |-> acc.cluster \o clusters[j],
            combined |-> Append(acc.combined, j)]
      ELSE acc

\* for j, other_cluster in enumerate(all_clusters), from j on.
RECURSIVE CombineFrom(_, _, _, _, _)
CombineFrom(acc, i, j, clusters, centroids) ==
  IF j > Len(clusters)
    THEN acc
    ELSE CombineFrom(CombineStep(acc, i, j, clusters, centroids),
                     i, j + 1, clusters, centroids)

\* list(set(x)): the members of x once each, in an order Python does not
\* define (string hashing differs from process to process): every order.
RECURSIVE ListsOf(_)
ListsOf(S) ==
  IF S = {}
    THEN {<<>>}
    ELSE UNION {{<<x>> \o rest : rest \in ListsOf(S \ {x})} : x \in S}

Members(cluster) == {cluster[x] : x \in 1..Len(cluster)}

------------------------------------------------------------------------------
(* SpecCentroid: one call of _combine_clusters_using_centroids on the      *)
(* clusters _get_clusters returns                                          *)

InitCentroid ==
  /\ IdleOther
  /\ IdleMgr
  /\ IdleCache
  /\ IdleLabel
  /\ pc = "centroids"
  /\ \E n \in 3..MaxEntities :
       \E tree \in Linkages(n), c0 \in 1..n, embs \in EmbeddingChoices :
         /\ entities = SubSeq(EntityPool, 1, n)
         /\ entity_embs = SubSeq(embs, 1, n)
         /\ all_clusters = get_clusters(entities, tree, c0,
                                        MinClusterSize, MaxClusterSize)
  /\ candidates = all_clusters
  /\ linkage_tree = <<>>
  /\ k = 0
  /\ all_clusters_dict = <<>>
  /\ skipped = 0
  /\ cluster_centroids = <<>>
  /\ ci = 0
  /\ deduped_clusters = <<>>
  /\ combined_indices = <<>>
  /\ merged_into = <<>>

\* The centroids of all clusters, before any is combined.
Centroids ==
  /\ pc = "centroids"
  /\ cluster_centroids' =
       [x \in 1..Len(all_clusters) |->
          Centroid(all_clusters[x], entities, entity_embs)]
  /\ merged_into' = [x \in 1..Len(all_clusters) |-> 0]
  /\ ci' = 1
  /\ pc' = "merge"
  /\ UNCHANGED <<entities, linkage_tree, k, all_clusters_dict, skipped,
                 all_clusters, entity_embs, candidates, deduped_clusters,
                 combined_indices>>
  /\ UNCHANGED <<otherVars, lruVars, mgrVars, lbVars>>

\* One pass of the outer loop. deduped_cluster is the list all_clusters[i]
\* itself, so += extends that list in place. orders[S] are the lists that
\* list(set(...)) may return for the members S.
MergeIn(orders) ==
  /\ pc = "merge"
  /\ ci <= Len(all_clusters)
  /\ IF ci \in Range(combined_indices)
       THEN UNCHANGED <<all_clusters, deduped_clusters, combined_indices,
                        merged_into>>
       ELSE LET r == CombineFrom([cluster |-> all_clusters[ci],
                                  combined |-> combined_indices],
                                 ci, 1, all_clusters, cluster_centroids)
            IN  /\ all_clusters' = [all_clusters EXCEPT ![ci] = r.cluster]
                /\ combined_indices' = r.combined
                /\ merged_into' =
                     [x \in 1..Len(all_clusters) |->
                        IF x \in Range(r.combined) \ Range(combined_indices)
                          THEN ci ELSE merged_into[x]]
                /\ \E order \in orders[Members(r.cluster)] :
                     deduped_clusters' = Append(deduped_clusters, order)
  /\ ci' = ci + 1
  /\ UNCHANGED <<pc, entities, linkage_tree, k, all_clusters_dict, skipped,
                 entity_embs, candidates, cluster_centroids>>
  /\ UNCHANGED <<otherVars, lruVars, mgrVars, lbVars>>

Merge == MergeIn([S \in SUBSET Range(entities) |-> ListsOf(S)])

\* The outer loop is over: deduped_clusters is returned.
ReturnDeduped ==
  /\ pc = "merge"
  /\ ci > Len(all_clusters)
  /\ pc' = "done"
  /\ UNCHANGED <<entities, linkage_tree, k, all_clusters_dict, skipped,
                 all_clusters>>
  /\ UNCHANGED <<otherVars, lruVars, mgrVars, cmVars, lbVars>>

NextCentroid == Centroids \/ Merge \/ ReturnDeduped

SpecCentroid == InitCentroid /\ [][NextCentroid]_vars

------------------------------------------------------------------------------
(* _label_and_combine_clusters (src/cluster.py)                            *)

\* The number of a cluster's entities that the prompt names at most. It
\* stands for 15 (src/cluster.py:98), scaled like the size window.
PROMPT_ENTITIES == 4

\* Lists of clusters that _combine_clusters_using_centroids returns: each
\* is the value of deduped_clusters in a final state of SpecCentroid, or the
\* empty list it returns when no flat cluster is in the size window.
ClusterListChoices ==
  { <<>>,
    << <<"c", "ab", "a">>, <<"d", "bc">> >>,
    << <<"a", "bc", "ab">>, <<"bc", "a">> >>,
    << <<"a", "bc">>, <<"c", "d", "ab">>, <<"c", "d">> >>,
    << <<"bc", "ab">>, <<"a", "bc", "ab">> >>,
    << <<"c", "d", "a", "bc">>, <<"c", "bc", "ab">> >>,
    << <<"a", "bc", "d", "ab", "c">> >> }

\* entity_counts: the number of occurrences of every entity, at least 1
\* (make_histograms counts the entities it clusters). All equal; all
\* different; some equal.
EntityCountChoices ==
  { [e \in Range(EntityPool) |-> 1],
    [e \in Range(EntityPool) |->
       CASE e = "a" -> 1 [] e = "bc" -> 2 [] e = "ab" -> 3 [] e = "c" -> 4
         [] e = "d" -> 5 [] e = "e" -> 6 [] OTHER -> 7],
    [e \in Range(EntityPool) |->
       CASE e = "a" -> 2 [] e = "bc" -> 1 [] e = "ab" -> 2 [] e = "c" -> 1
         [] e = "d" -> 3 [] e = "e" -> 1 [] OTHER -> 2] }

\* What LLM.call may return for a labeling prompt: the text of a language
\* model, any string. (A result of None is falsy and is treated as "".)
Labels == {"", "none", "None", "NONE", "animals", "days"}

\* sorted(...)'s step for one more entity: reverse=True keeps the order of
\* entities with equal counts, so the entity goes after every entity whose
\* count is not smaller.
InsertByCount(sorted, e, counts) ==
  LET pos == Cardinality({x \in 1..Len(sorted) : counts[sorted[x]] >= counts[e]})
  IN  SubSeq(sorted, 1, pos) \o <<e>> \o SubSeq(sorted, pos + 1, Len(sorted))

\* _sort_cluster_by_counts.
RECURSIVE sort_cluster_by_counts(_, _)
sort_cluster_by_counts(cluster, counts) ==
  IF cluster = <<>>
    THEN <<>>
    ELSE InsertByCount(
           sort_cluster_by_counts(SubSeq(cluster, 1, Len(cluster) - 1), counts),
           cluster[Len(cluster)], counts)

\* sep.join(s).
RECURSIVE JoinWith(_, _)
JoinWith(sep, s) ==
  IF s = <<>>
    THEN ""
    ELSE IF Len(s) = 1
      THEN s[1]
      ELSE s[1] \o sep \o JoinWith(sep, Tail(s))

\* s[:n].
Take(s, n) == SubSeq(s, 1, IF Len(s) < n THEN Len(s) ELSE n)

\* cluster_str: the prompt's entities.
cluster_str(cluster, counts) ==
  JoinWith(", ", Take(sort_cluster_by_counts(cluster, counts), PROMPT_ENTITIES))

\* The test of line 100: the cluster is left out.
IsDiscarded(description) ==
  description = "none" \/ description = "" \/ description = "None"

\* The rest of the first loop's body, on the histograms so far.
AddToHistograms(h, cluster, description) ==
  IF IsDiscarded(description)
    THEN h
    ELSE LET bucket == IF description \in Keys(h)
                         THEN Lookup(h, description) ELSE <<>>
         IN  setitem(h, description, bucket \o cluster)

\* A second loop body that sorts the concatenated bucket as it is.
Resorted_NoDedupe(cluster, counts) ==
  {sort_cluster_by_counts(cluster, counts)}

\* The second loop's body for one bucket: list(set(cluster)), in any order,
\* then _sort_cluster_by_counts. The lists it may assign.
Resorted(cluster, counts) ==
  {sort_cluster_by_counts(order, counts) : order \in ListsOf(Members(cluster))}

------------------------------------------------------------------------------
(* SpecLabel: one call of _label_and_combine_clusters                      *)

InitLabel ==
  /\ IdleOther
  /\ IdleMgr
  /\ IdleCache
  /\ IdleCentroid
  /\ pc = "label"
  /\ entities = <<>>
  /\ linkage_tree = <<>>
  /\ k = 0
  /\ all_clusters_dict = <<>>
  /\ skipped = 0
  /\ all_clusters \in ClusterListChoices
  /\ entity_counts \in EntityCountChoices
  /\ li = 1
  /\ histograms = <<>>
  /\ labeled = <<>>

\* One pass of the first loop: the cluster is labeled and, unless it is
\* discarded, added to its label's bucket.
LabelCluster ==
  /\ pc = "label"
  /\ li <= Len(all_clusters)
  /\ LET cluster == all_clusters[li]
     IN  IF cluster = <<>>
           THEN UNCHANGED <<histograms, labeled>>
           ELSE \E description \in Labels :
                  /\ histograms' = AddToHistograms(histograms, cluster, description)
                  /\ labeled' =
                       Append(labeled,
                              [cluster |-> cluster,
                               prompt |-> cluster_str(cluster, entity_counts),
                               description |-> description])
  /\ li' = li + 1
  /\ UNCHANGED <<pc, entity_counts>>
  /\ UNCHANGED <<otherVars, lruVars, mgrVars, cmVars, entities, linkage_tree, k,
                 all_clusters_dict, skipped, all_clusters>>

\* The first loop is over and the second starts.
StartResort ==
  /\ pc = "label"
  /\ li > Len(all_clusters)
  /\ pc' = "resort"
  /\ li' = 1
  /\ UNCHANGED <<entity_counts, histograms, labeled>>
  /\ UNCHANGED <<otherVars, lruVars, mgrVars, cmVars, entities, linkage_tree, k,
                 all_clusters_dict, skipped, all_clusters>>

\* One pass of the second loop.
ResortBucket ==
  /\ pc = "resort"
  /\ li <= Len(histograms)
  /\ \E cluster \in Resorted(histograms[li].v, entity_counts) :
       histograms' = [histograms EXCEPT ![li].v = cluster]
  /\ li' = li + 1
  /\ UNCHANGED <<pc, entity_counts, labeled>>
  /\ UNCHANGED <<otherVars, lruVars, mgrVars, cmVars, entities, linkage_tree, k,
                 all_clusters_dict, skipped, all_clusters>>

\* The second loop is over: histograms is returned.
ReturnHistograms ==
  /\ pc = "resort"
  /\ li > Len(histograms)
  /\ pc' = "done"
  /\ UNCHANGED <<lbVars>>
  /\ UNCHANGED <<otherVars, lruVars, mgrVars, cmVars, entities, linkage_tree, k,
                 all_clusters_dict, skipped, all_clusters>>

NextLabel == LabelCluster \/ StartResort \/ ResortBucket \/ ReturnHistograms

SpecLabel == InitLabel /\ [][NextLabel]_vars

------------------------------------------------------------------------------
(* get_examples_of_label (src/app/server_api.py)                           *)

\* The default of n_neighbors: stands for _K = 20 (src/app/server_api.py:27).
n_neighbors == 2

\* The largest entity universe the neighbor index is fitted on.
MaxUniverse == 3

\* The largest number of exemplars the language model returns.
MaxExemplars == 2

\* entity_label_confidence, in tenths: 0.1, 0.5 and 1.0.
Confidences == {1, 5, 10}

\* The embeddings of exemplars and of entities.
Points == {<<0, 0>>, <<2, 0>>, <<0, 3>>}

RECURSIVE VecSum(_)
VecSum(embs) ==
  IF embs = <<>>
    THEN <<0, 0>>
    ELSE LET rest == VecSum(Tail(embs))
         IN  <<Head(embs)[1] + rest[1], Head(embs)[2] + rest[2]>>

\* The square of the distance (minkowski, p = 2) of emb to
\* examples_mean_emb = np.mean(embs, axis=0), times the square of the number
\* of exemplars: the mean is the sum divided by that number.
Dist2(emb, embs) ==
  LET n == Len(embs)
      s == VecSum(embs)
  IN  (n * emb[1] - s[1]) * (n * emb[1] - s[1])
        + (n * emb[2] - s[2]) * (n * emb[2] - s[2])

\* np.max(dists_to_center), squared and scaled like Dist2.
MaxDist2(embs) ==
  LET ds == {Dist2(embs[x], embs) : x \in 1..Len(embs)}
  IN  CHOOSE m \in ds : \A d \in ds : d <= m

\* A radius that grows with the confidence: 1 - eps in place of 1 + eps.
RadiusFactor_Grows(c) ==
  LET eps == 10 - c IN 10 - eps

\* radius / np.max(dists_to_center), in tenths, for the confidence c in
\* tenths: eps = 1 - entity_label_confidence, and the factor is 1 + eps.
RadiusFactor(c) ==
  LET eps == 10 - c IN 10 + eps

\* A test that stops at a neighbor on the radius as well.
ExceedsRadius_OrOn(d2, max2, c) ==
  100 * d2 >= RadiusFactor(c) * RadiusFactor(c) * max2

\* dist > radius, both sides squared (they are not negative).
ExceedsRadius(d2, max2, c) ==
  100 * d2 > RadiusFactor(c) * RadiusFactor(c) * max2

\* knn_entities.kneighbors([examples_mean_emb], n_neighbors=k) returns the
\* k nearest entities, nearest first. The orders of all entities by distance
\* that the index may use; entities at the same distance come in an order
\* the library chooses.
NeighborOrders(ent_embs, embs) ==
  {o \in ListsOf(1..Len(ent_embs)) :
     \A x, y \in 1..Len(o) :
       x < y => Dist2(ent_embs[o[x]], embs) <= Dist2(ent_embs[o[y]], embs)}

\* The loop over zip(dists[0], idxs[0]), from the neighbors idxs on.
RECURSIVE AnswersFrom(_, _, _, _, _, _)
AnswersFrom(answers, idxs, ents, ent_embs, embs, c) ==
  IF idxs = <<>>
    THEN answers
    ELSE IF ExceedsRadius(Dist2(ent_embs[Head(idxs)], embs), MaxDist2(embs), c)
      THEN answers
      ELSE AnswersFrom(Append(answers, ents[Head(idxs)]), Tail(idxs),
                       ents, ent_embs, embs, c)

\* get_examples_of_label, after the exemplars are embedded: answers.
get_examples_of_label(ents, ent_embs, order, embs, c, nn) ==
  LET kk == IF Len(ents) < nn THEN Len(ents) ELSE nn
  IN  AnswersFrom(<<>>, Take(order, kk), ents, ent_embs, embs, c)

------------------------------------------------------------------------------
(* SpecExamples: calls of get_examples_of_label with the same exemplars,   *)
(* entities and neighbor index, and any confidences                        *)

InitExamples ==
  /\ IdleTopK
  /\ IdlePipeline
  /\ IdleMgr
  /\ IdleCache
  /\ IdleLabel
  /\ pc = "idle"
  /\ linkage_tree = <<>>
  /\ k = 0
  /\ all_clusters_dict = <<>>
  /\ skipped = 0
  /\ all_clusters = <<>>
  /\ candidates = <<>>
  /\ cluster_centroids = <<>>
  /\ ci = 0
  /\ deduped_clusters = <<>>
  /\ combined_indices = <<>>
  /\ merged_into = <<>>
  /\ entity_embs \in SeqsUpTo(Points, MaxUniverse) \ {<<>>}
  /\ entities = SubSeq(EntityPool, 1, Len(entity_embs))
  /\ exemplar_embs \in SeqsUpTo(Points, MaxExemplars) \ {<<>>}
  /\ knn_order \in NeighborOrders(entity_embs, exemplar_embs)
  /\ queries = <<>>

\* One call with the confidence c / 10.
Query(c) ==
  /\ exemplar_embs # <<>>
  /\ queries' =
       Remember(queries,
                [confidence |-> c,
                 answers |-> get_examples_of_label(entities, entity_embs,
                                                   knn_order, exemplar_embs,
                                                   c, n_neighbors)])
  /\ UNCHANGED <<exemplar_embs, knn_order>>
  /\ UNCHANGED <<lruVars, mgrVars, clusterVars, tkVars, plVars>>

NextExamples == \E c \in Confidences : Query(c)

SpecExamples == InitExamples /\ [][NextExamples]_vars

------------------------------------------------------------------------------
(* SpecScenario: _get_clusters and the centroid merge on seven entities,   *)
(* with the size window of the source                                      *)

\* len(cluster) < 3 or len(cluster) > 15 (src/cluster.py:64): the window.
MinCandidateSize == 3

MaxCandidateSize == 15

ScenarioEntities ==
  <<"cat", "dog", "wolf", "monday", "tuesday", "wednesday", "7">>

\* Embeddings with the three animals within 12 degrees of each other, the
\* three weekdays likewise, the two groups at a right angle and "7"
\* opposite to both.
ScenarioEmbs ==
  << <<10, 0>>, <<10, 1>>, <<10, -1>>, <<0, 10>>, <<1, 10>>, <<-1, 10>>,
     <<-10, -10>> >>

Animals == {1, 2, 3}

Weekdays == {4, 5, 6}

\* Blocks A and B may be joined in a tree for such embeddings: animals are
\* joined with animals and weekdays with weekdays before any of them is
\* joined with anything else.
Joinable(A, B) ==
  LET whole(X) == \A G \in {Animals, Weekdays} : G \cap X = {} \/ G \subseteq X
  IN  \/ A \cup B \subseteq Animals
      \/ A \cup B \subseteq Weekdays
      \/ whole(A) /\ whole(B)

\* The trees over the partition P that join only such blocks.
RECURSIVE ScenarioCoarsenings(_)
ScenarioCoarsenings(P) ==
  IF Cardinality(P) <= 1
    THEN {<<P>>}
    ELSE UNION {{<<P>> \o t :
                   t \in ScenarioCoarsenings((P \ {x[1], x[2]}) \cup {x[1] \cup x[2]})} :
                x \in {y \in P \X P : MinOf(y[1]) < MinOf(y[2])
                                          /\ Joinable(y[1], y[2])}}

\* The trees hierarchy.linkage may return.
ScenarioTrees == ScenarioCoarsenings(Singletons(Len(ScenarioEntities)))

\* Two of the orders list(set(...)) may return: the members in the order of
\* the entities array, and in the reverse of it.
RECURSIVE Reverse(_)
Reverse(s) == IF s = <<>> THEN <<>> ELSE Append(Reverse(Tail(s)), Head(s))

ArrayOrders(S) ==
  LET inOrder == SelectSeq(entities, LAMBDA e : e \in S)
  IN  {inOrder, Reverse(inOrder)}

InitScenario ==
  /\ IdleOther
  /\ IdleMgr
  /\ IdleCache
  /\ IdleLabel
  /\ pc = "linkage"
  /\ entities = ScenarioEntities
  /\ entity_embs = ScenarioEmbs
  /\ linkage_tree = <<>>
  /\ k = 0
  /\ all_clusters_dict = <<>>
  /\ skipped = 0
  /\ all_clusters = <<>>
  /\ candidates = <<>>
  /\ cluster_centroids = <<>>
  /\ ci = 0
  /\ deduped_clusters = <<>>
  /\ combined_indices = <<>>
  /\ merged_into = <<>>

\* linkage_tree = hierarchy.linkage(emb_distances, 'median').
ScenarioLinkage ==
  /\ pc = "linkage"
  /\ linkage_tree' \in ScenarioTrees
  /\ pc' = "cut"
  /\ UNCHANGED <<entities, k, all_clusters_dict, skipped, all_clusters>>
  /\ UNCHANGED <<otherVars, lruVars, mgrVars, cmVars, lbVars>>

\* One pass of the loop over k, with the window of the source.
ScenarioCut ==
  /\ pc = "cut"
  /\ k < Len(entities)
  /\ \E c \in CutCounts(linkage_tree, k) :
       LET cluster_labels == fcluster(linkage_tree, c)
           r == RecordLabels([dict |-> all_clusters_dict, skipped |-> skipped],
                             entities, cluster_labels, 0,
                             MinCandidateSize, MaxCandidateSize)
       IN  /\ all_clusters_dict' = r.dict
           /\ skipped' = r.skipped
  /\ k' = k + 1
  /\ UNCHANGED <<pc, entities, linkage_tree, all_clusters>>
  /\ UNCHANGED <<otherVars, lruVars, mgrVars, cmVars, lbVars>>

\* _get_clusters returns and _combine_clusters_using_centroids is called
\* with its result.
ScenarioCombine ==
  /\ pc = "cut"
  /\ k = Len(entities)
  /\ all_clusters' = Values(all_clusters_dict)
  /\ candidates' = Values(all_clusters_dict)
  /\ pc' = "centroids"
  /\ UNCHANGED <<entities, linkage_tree, k, all_clusters_dict, skipped>>
  /\ UNCHANGED <<entity_embs, cluster_centroids, ci, deduped_clusters,
                 combined_indices, merged_into>>
  /\ UNCHANGED <<otherVars, lruVars, mgrVars, lbVars>>

ScenarioMerge == MergeIn([S \in SUBSET Range(entities) |-> ArrayOrders(S)])

NextScenario ==
  \/ ScenarioLinkage
  \/ ScenarioCut
  \/ ScenarioCombine
  \/ Centroids
  \/ ScenarioMerge
  \/ ReturnDeduped

SpecScenario == InitScenario /\ [][NextScenario]_vars

------------------------------------------------------------------------------
(* take_top_k and the entity universe of make_histograms (src/cluster.py)  *)

\* The default of k in take_top_k: stands for 2000 (src/cluster.py:144).
TOP_K == 2

\* The longest list of entity occurrences.
MaxOccurrences == 4

\* collections.Counter(s) as a dict: every entity once, in the order of its
\* first occurrence, with the number of its occurrences.
RECURSIVE CounterOf(_)
CounterOf(s) ==
  IF s = <<>>
    THEN <<>>
    ELSE LET rest == CounterOf(SubSeq(s, 1, Len(s) - 1))
             e == s[Len(s)]
         IN  IF e \in Keys(rest)
               THEN setitem(rest, e, Lookup(rest, e) + 1)
               ELSE setitem(rest, e, 1)

\* sorted(entity_counts, key=lambda x: x[1], reverse=True): the step for one
\* more item, which goes after every item whose count is not smaller.
InsertItem(sorted, item) ==
  LET pos == Cardinality({x \in 1..Len(sorted) : sorted[x].v >= item.v})
  IN  SubSeq(sorted, 1, pos) \o <<item>> \o SubSeq(sorted, pos + 1, Len(sorted))

RECURSIVE SortItems(_)
SortItems(items) ==
  IF items = <<>>
    THEN <<>>
    ELSE InsertItem(SortItems(SubSeq(items, 1, Len(items) - 1)),
                    items[Len(items)])

\* A take_top_k that keeps the first kk entities in the order of their first
\* occurrence.
take_top_k_Unsorted(occurrences, kk) == Take(CounterOf(occurrences), kk)

\* take_top_k: the dict of the kk most frequent entities and their counts.
take_top_k(occurrences, kk) == Take(SortItems(CounterOf(occurrences)), kk)

------------------------------------------------------------------------------
(* SpecTopK: the first lines of make_histograms                            *)

InitTopK ==
  /\ IdleExamples
  /\ IdlePipeline
  /\ IdleMgr
  /\ IdleCache
  /\ IdleCentroid
  /\ pc = "top_k"
  /\ duplicated_entities \in SeqsUpTo(Texts, MaxOccurrences)
  /\ top_k = <<>>
  /\ entities = <<>>
  /\ entity_counts = <<>>
  /\ linkage_tree = <<>>
  /\ k = 0
  /\ all_clusters_dict = <<>>
  /\ skipped = 0
  /\ all_clusters = <<>>
  /\ li = 0
  /\ histograms = <<>>
  /\ labeled = <<>>

\* duplicated_entities = take_top_k(duplicated_entities).
TakeTopK ==
  /\ pc = "top_k"
  /\ top_k' = <<take_top_k(duplicated_entities, TOP_K)>>
  /\ pc' = "universe"
  /\ UNCHANGED <<duplicated_entities, entities, entity_counts>>
  /\ UNCHANGED <<linkage_tree, k, all_clusters_dict, skipped, all_clusters,
                 li, histograms, labeled>>
  /\ UNCHANGED <<lruVars, mgrVars, cmVars, exVars, plVars>>

\* entity_counts = dict(collections.Counter(duplicated_entities)): a Counter
\* made from a dict takes the dict's counts. entities =
\* deduplicate(duplicated_entities): the keys, in the order of a set.
Universe ==
  /\ pc = "universe"
  /\ entity_counts' = [e \in Keys(top_k[1]) |-> Lookup(top_k[1], e)]
  /\ entities' \in ListsOf(Keys(top_k[1]))
  /\ pc' = "done"
  /\ UNCHANGED <<duplicated_entities, top_k>>
  /\ UNCHANGED <<linkage_tree, k, all_clusters_dict, skipped, all_clusters,
                 li, histograms, labeled>>
  /\ UNCHANGED <<lruVars, mgrVars, cmVars, exVars, plVars>>

NextTopK == TakeTopK \/ Universe

SpecTopK == InitTopK /\ [][NextTopK]_vars

------------------------------------------------------------------------------
(* AutomaticHistograms.run_pipeline (src/pipeline.py)                      *)

OUTPUT_ANNOTATED_CSV == "data.csv"

OUTPUT_HISTOGRAMS_FILENAME == "histograms.json"

OUTPUT_DESC_EMBS_FILENAME == "embeddings_description.npy"

OUTPUT_ENTITY_EMBS_FILENAME == "embeddings_entities.npy"

\* What an earlier run left in the output directory.
OutputDirChoices ==
  { NoDir,
    [exists |-> TRUE, files |-> {}],
    [exists |-> TRUE,
     files |-> {OUTPUT_ANNOTATED_CSV, OUTPUT_HISTOGRAMS_FILENAME,
                OUTPUT_DESC_EMBS_FILENAME, OUTPUT_ENTITY_EMBS_FILENAME}] }

\* The caches an earlier run with the model id may have flushed.
CachesOf(id) ==
  { <<>>,
    LRUCache_init(MAX_CACHE_ENTRIES,
                  <<[k |-> "a", v |-> model_embed(Model(id), "a")]>>),
    LRUCache_init(MAX_CACHE_ENTRIES,
                  <<[k |-> "b", v |-> model_embed(Model(id), "b")],
                    [k |-> "a", v |-> model_embed(Model(id), "a")]>>) }

\* The cache files an earlier run may have written.
PersistedFiles ==
  UNION {{update_embeddings_cache(Model(id), c) : c \in CachesOf(id)} :
           id \in {"use", "gecko"}}

\* The errors of a wrong configuration.
ConfigErrors == {"column", "identity", "sample"}

\* An order of the steps that makes the output directory before the
\* embeddings manager is constructed.
Following_DirFirst(step) ==
  CASE step = "load" -> "outdir"
    [] step = "outdir" -> "save_csv"
    [] step = "save_csv" -> "manager"
    [] step = "manager" -> "histograms"
    [] step = "histograms" -> "save_json"
    [] step = "save_json" -> "flush"
    [] OTHER -> "done"

\* The order of the steps of run_pipeline.
Following(step) ==
  CASE step = "load" -> "manager"
    [] step = "manager" -> "outdir"
    [] step = "outdir" -> "save_csv"
    [] step = "save_csv" -> "histograms"
    [] step = "histograms" -> "save_json"
    [] step = "save_json" -> "flush"
    [] OTHER -> "done"

------------------------------------------------------------------------------
(* SpecPipeline: one call of run_pipeline                                  *)

InitPipeline ==
  /\ IdleExamples
  /\ IdleTopK
  /\ IdleLRU
  /\ IdleClusters
  /\ IdleCentroid
  /\ IdleLabel
  /\ cache = <<>>
  /\ capacity = MAX_CACHE_ENTRIES
  /\ model = None
  /\ flushed = <<>>
  /\ mlast = NoOp
  /\ trail = NoTrail
  /\ \/ file = None /\ dir \in BOOLEAN
     \/ file \in PersistedFiles /\ dir = TRUE
  /\ ppc = "load"
  /\ has_column \in BOOLEAN
  /\ embedder \in ModelIds
  /\ out_dir \in OutputDirChoices
  /\ out_before = out_dir
  /\ effects = <<>>
  /\ error = ""

\* df = self._load_data(); df = parse_df(df, column); annotate_entities(df).
LoadAndParse ==
  /\ ppc = "load"
  /\ IF has_column
       THEN ppc' = Following("load") /\ error' = error
       ELSE ppc' = "raised" /\ error' = "column"
  /\ UNCHANGED <<has_column, embedder, out_dir, out_before, effects>>
  /\ UNCHANGED <<lruVars, mgrVars, clusterVars, exVars, tkVars>>

\* embs_manager = EmbeddingsManager(self._embedder, self._cache_directory).
LoadManager ==
  /\ ppc = "manager"
  /\ LET m == Model(embedder)
         r == load_or_create_embeddings_cache(m, file)
     IN  /\ dir' = TRUE
         /\ IF r.raised
              THEN /\ ppc' = "raised"
                   /\ error' = IF m.name # np_load_item(file).model_name
                                 THEN "identity" ELSE "sample"
                   /\ UNCHANGED <<model, cache>>
              ELSE /\ ppc' = Following("manager")
                   /\ error' = error
                   /\ model' = embedder
                   /\ cache' = r.cache
  /\ UNCHANGED <<has_column, embedder, out_dir, out_before, effects>>
  /\ UNCHANGED <<file, flushed, mlast, trail, capacity, recency, hist, loaded>>
  /\ UNCHANGED <<clusterVars, exVars, tkVars>>

\* if os.path.exists(output_dir): shutil.rmtree(output_dir);
\* os.makedirs(output_dir).
MakeOutputDir ==
  /\ ppc = "outdir"
  /\ out_dir' = [exists |-> TRUE, files |-> {}]
  /\ effects' = effects \o (IF out_dir.exists THEN <<"rmtree">> ELSE <<>>)
                        \o <<"makedirs">>
  /\ ppc' = Following("outdir")
  /\ UNCHANGED <<has_column, embedder, out_before, error>>
  /\ UNCHANGED <<lruVars, mgrVars, clusterVars, exVars, tkVars>>

\* self._save_annotated_datapoints(df).
SaveAnnotated ==
  /\ ppc = "save_csv"
  /\ out_dir' = [out_dir EXCEPT !.files = @ \cup {OUTPUT_ANNOTATED_CSV}]
  /\ effects' = Append(effects, OUTPUT_ANNOTATED_CSV)
  /\ ppc' = Following("save_csv")
  /\ UNCHANGED <<has_column, embedder, out_before, error>>
  /\ UNCHANGED <<lruVars, mgrVars, clusterVars, exVars, tkVars>>

\* cluster.make_histograms and cluster.get_histogram_embeddings: the
\* entities are embedded and the cache is flushed (src/cluster.py:172-173);
\* the calls of the language model that follow succeed or raise.
MakeHistograms ==
  /\ ppc = "histograms"
  /\ \E texts \in SeqsUpTo(MgrTexts, MaxTexts) :
       LET e == EmbeddingsManager_embed_all(Model(model), cache, texts)
       IN  /\ cache' = e.cache
           /\ file' = update_embeddings_cache(Model(model), e.cache)
  /\ \E ok \in BOOLEAN :
       IF ok
         THEN ppc' = Following("histograms") /\ error' = error
         ELSE ppc' = "raised" /\ error' = "runtime"
  /\ UNCHANGED <<has_column, embedder, out_dir, out_before, effects>>
  /\ UNCHANGED <<model, dir, flushed, mlast, trail, capacity, recency, hist,
                 loaded>>
  /\ UNCHANGED <<clusterVars, exVars, tkVars>>

\* self._save_histograms_json(...): the json, then the two arrays.
SaveResults ==
  /\ ppc = "save_json"
  /\ out_dir' = [out_dir EXCEPT !.files =
                   @ \cup {OUTPUT_HISTOGRAMS_FILENAME, OUTPUT_DESC_EMBS_FILENAME,
                           OUTPUT_ENTITY_EMBS_FILENAME}]
  /\ effects' = effects \o <<OUTPUT_HISTOGRAMS_FILENAME,
                             OUTPUT_DESC_EMBS_FILENAME,
                             OUTPUT_ENTITY_EMBS_FILENAME>>
  /\ ppc' = Following("save_json")
  /\ UNCHANGED <<has_column, embedder, out_before, error>>
  /\ UNCHANGED <<lruVars, mgrVars, clusterVars, exVars, tkVars>>

\* embs_manager.update_embeddings_cache().
FinalFlush ==
  /\ ppc = "flush"
  /\ file' = update_embeddings_cache(Model(model), cache)
  /\ ppc' = Following("flush")
  /\ UNCHANGED <<has_column, embedder, out_dir, out_before, effects, error>>
  /\ UNCHANGED <<model, dir, flushed, mlast, trail, lruVars>>
  /\ UNCHANGED <<clusterVars, exVars, tkVars>>

NextPipeline ==
  \/ LoadAndParse
  \/ LoadManager
  \/ MakeOutputDir
  \/ SaveAnnotated
  \/ MakeHistograms
  \/ SaveResults
  \/ FinalFlush

SpecPipeline == InitPipeline /\ [][NextPipeline]_vars

------------------------------------------------------------------------------
(* C1, C2: the LRU discipline                                              *)

LastOp == hist[Len(hist)]

Evicted(rec, after) == Keys(rec.before) \ Keys(after)

\* C1: the cache never holds more than `capacity` entries once an operation
\* has completed; a put of a new key into a full cache evicts exactly one
\* entry, the least recently used one; a put of a resident key (and a put
\* into a cache that is not full) evicts nothing.
C1_CapacityAndEviction ==
  /\ Len(cache) <= capacity
  /\ (hist # <<>> /\ LastOp.op = "put") =>
       LET b == LastOp.before
           key == LastOp.key
       IN  IF key \in Keys(b)
             THEN Keys(cache) = Keys(b)
             ELSE IF Len(b) = capacity
               THEN /\ Evicted(LastOp, cache) = {Head(LastOp.lru)}
                    /\ Keys(cache) = (Keys(b) \ {Head(LastOp.lru)}) \cup {key}
               ELSE Keys(cache) = Keys(b) \cup {key}

\* A put of a new key into a full cache has just evicted an entry.
C1_Witness ==
  /\ hist # <<>>
  /\ LastOp.op = "put"
  /\ LastOp.key \notin Keys(LastOp.before)
  /\ Len(LastOp.before) = capacity
  /\ capacity >= 2
  /\ Cardinality(Evicted(LastOp, cache)) = 1

\* The last two operations were a get of the oldest key of a full cache and
\* then a put of a key that was not resident.
GetOldestThenPutNew ==
  /\ Len(hist) = 2
  /\ hist[1].op = "get"
  /\ Len(hist[1].before) = capacity
  /\ hist[1].key = Head(hist[1].lru)
  /\ hist[2].op = "put"
  /\ hist[2].key \notin Keys(hist[2].before)

\* The put evicted the second-oldest key and the key that was read stayed.
SecondOldestEvicted ==
  /\ Len(hist[1].lru) >= 2
  /\ Evicted(hist[2], cache) = {hist[1].lru[2]}
  /\ hist[1].key \in Keys(cache)

\* A get that misses returns absent and changes neither the contents nor the
\* recency order.
MissHasNoEffect ==
  (hist # <<>> /\ LastOp.op = "get" /\ LastOp.key \notin Keys(LastOp.before)) =>
    /\ LastOp.ret = None
    /\ cache = LastOp.before
    /\ recency = LastOp.lru

\* C2 as stated, for every capacity: after a get of the oldest key of a full
\* cache, the put of a new key evicts the second-oldest key and the key that
\* was read stays resident; a miss has no effect.
C2_AsStated ==
  /\ GetOldestThenPutNew => SecondOldestEvicted
  /\ MissHasNoEffect

\* C2, amended: the same for every capacity of at least 2 (a cache of
\* capacity 1 has no second-oldest key, and the put evicts the key that was
\* read).
C2_GetPromotes ==
  /\ (GetOldestThenPutNew /\ capacity >= 2) => SecondOldestEvicted
  /\ MissHasNoEffect

C2_Witness == GetOldestThenPutNew /\ capacity >= 2 /\ SecondOldestEvicted


------------------------------------------------------------------------------
(* C3: an incompatible persisted cache is fatal                            *)

PersistedCache(f) == np_load_item(f).cache

DeclaredName(f) == np_load_item(f).model_name

\* The file declares another identity than the model being constructed with.
IdentityDiffers(rec) ==
  /\ rec.fileBefore # None
  /\ DeclaredName(rec.fileBefore) # Model(rec.id).name

\* The identities match and the first persisted vector differs in some
\* element from the model's embedding of its key.
SampleDiffers(rec) ==
  /\ rec.fileBefore # None
  /\ DeclaredName(rec.fileBefore) = Model(rec.id).name
  /\ PersistedCache(rec.fileBefore) # <<>>
  /\ LET e == PersistedCache(rec.fileBefore)[1]
     IN  \E i \in 1..Len(e.v) : e.v[i] # Model(rec.id).table[e.k][i]

\* C3: constructing a manager raises, and no manager exists afterwards,
\* whenever the persisted cache declares another model identity, and whenever
\* the identities match but the sampled (first) persisted vector differs from
\* the live model's embedding of the same key; the cache file is left as it
\* was.
C3_IncompatibleCacheIsFatal ==
  (mlast.op = "construct" /\ (IdentityDiffers(mlast) \/ SampleDiffers(mlast))) =>
    /\ mlast.raised
    /\ model = None
    /\ file = mlast.fileBefore

\* A construction has just failed on the sampled vector of a non-empty cache
\* of the same identity.
C3_Witness ==
  /\ mlast.op = "construct"
  /\ SampleDiffers(mlast)
  /\ mlast.raised

------------------------------------------------------------------------------
(* C4: flush, then reload                                                  *)

\* The last operation constructed a manager with the model that wrote the
\* cache file.
ReloadedBySameModel ==
  /\ mlast.op = "construct"
  /\ flushed # <<>>
  /\ mlast.id = flushed[1].by

SameAsFlushed ==
  /\ ~mlast.raised
  /\ model = mlast.id
  /\ Entries(cache) = flushed[1].entries
  /\ Model(model).name = flushed[1].model_name
  /\ DeclaredName(file) = flushed[1].model_name

\* C4 as stated: a flush followed by constructing a manager with the same
\* model on the same directory yields the entries and the identity of the
\* flush.
C4_AsStated == ReloadedBySameModel => SameAsFlushed

\* C4, amended: such a construction either raises, which it does exactly when
\* the first persisted vector differs from the live model's embedding of its
\* key (the flushed cache held a vector that another model of the same
\* identity produced), or yields the entries and the identity of the flush.
C4_FlushReloadRoundTrip ==
  ReloadedBySameModel =>
    IF SampleDiffers(mlast)
      THEN mlast.raised /\ model = None /\ file = mlast.fileBefore
      ELSE SameAsFlushed

\* A reload that succeeded on a cache of two entries.
C4_Witness ==
  /\ ReloadedBySameModel
  /\ SameAsFlushed
  /\ Cardinality(flushed[1].entries) >= 2

------------------------------------------------------------------------------
(* C5: embed is cache-first                                                *)

WasResident(rec) == rec.arg \in Keys(rec.cacheBefore)

\* C5: embed calls the model exactly when the text is not resident; a hit
\* returns the cached vector without a model call; a miss returns the model's
\* vector; either way the text is resident afterwards as the most recently
\* used entry, holding the vector that was returned.
C5_EmbedIsCacheFirst ==
  mlast.op = "embed" =>
    /\ IF WasResident(mlast)
         THEN /\ mlast.calls = <<>>
              /\ mlast.ret = Lookup(mlast.cacheBefore, mlast.arg)
         ELSE /\ mlast.calls = <<mlast.arg>>
              /\ mlast.ret = Model(mlast.id).table[mlast.arg]
    /\ cache # <<>>
    /\ cache[Len(cache)] = [k |-> mlast.arg, v |-> mlast.ret]

\* A miss on a full cache, and a hit that returned a vector the live model
\* would not produce.
C5_Witness ==
  /\ mlast.op = "embed"
  /\ ~WasResident(mlast)
  /\ Len(mlast.cacheBefore) = MAX_CACHE_ENTRIES
  /\ mlast.calls = <<mlast.arg>>

C5_WitnessHit ==
  /\ mlast.op = "embed"
  /\ WasResident(mlast)
  /\ mlast.ret # Model(mlast.id).table[mlast.arg]

------------------------------------------------------------------------------
(* C6: embed_all                                                           *)

\* C6: with a model that offers embed_batch, embed_all returns its result
\* and the cache is as before, contents and order, with no call of embed;
\* with a model that does not, nothing is raised and embed is called once per
\* text, in list order, each result in its place.
C6_EmbedAllPaths ==
  mlast.op = "embed_all" =>
    IF Model(mlast.id).batch
      THEN /\ mlast.ret = [i \in 1..Len(mlast.arg) |->
                             Model(mlast.id).table[mlast.arg[i]]]
           /\ cache = mlast.cacheBefore
           /\ mlast.embeds = <<>>
           /\ mlast.calls = <<>>
      ELSE /\ ~mlast.raised
           /\ model = mlast.id
           /\ mlast.embeds = mlast.arg
           /\ Len(mlast.ret) = Len(mlast.arg)

\* The batch path has just run beside a cache that holds entries, with a
\* text that is not resident.
C6_Witness ==
  /\ mlast.op = "embed_all"
  /\ Model(mlast.id).batch
  /\ mlast.cacheBefore # <<>>
  /\ \E i \in 1..Len(mlast.arg) : mlast.arg[i] \notin Keys(cache)

\* The fallback has just embedded two different texts.
C6_WitnessFallback ==
  /\ mlast.op = "embed_all"
  /\ ~Model(mlast.id).batch
  /\ Len(mlast.arg) = 2
  /\ mlast.arg[1] # mlast.arg[2]
  /\ mlast.calls = mlast.arg


------------------------------------------------------------------------------
(* C7: candidate uniqueness                                                *)

\* C7: no two clusters of the list _get_clusters returns have the same
\* member set; the same holds of the clusters recorded so far at every point
\* of the loop.
C7_CandidatesUnique ==
  /\ \A i, j \in 1..Len(all_clusters_dict) :
       i # j => Members(all_clusters_dict[i].v) # Members(all_clusters_dict[j].v)
  /\ pc = "done" =>
       \A i, j \in 1..Len(all_clusters) :
         i # j => Members(all_clusters[i]) # Members(all_clusters[j])

\* _get_clusters has returned several candidates after the same flat cluster
\* came back at later cuts.
C7_Witness ==
  /\ pc = "done"
  /\ Len(all_clusters) >= 2
  /\ skipped >= 2


------------------------------------------------------------------------------
(* C8: the centroid merge threshold                                        *)

\* The centroids of candidates x and y are closer than the threshold.
CloseCentroids(x, y) ==
  SimBelowThreshold(Centroid(candidates[x], entities, entity_embs),
                    Centroid(candidates[y], entities, entity_embs))

\* Some cluster of the output holds every member of candidates x and y.
UnionInOutput(x, y) ==
  \E o \in 1..Len(deduped_clusters) :
    Members(candidates[x]) \cup Members(candidates[y])
      \subseteq Members(deduped_clusters[o])

\* C8 as stated: the output holds the union of any two candidates whose
\* centroids are closer than 0.05.
C8_AsStated ==
  pc = "done" =>
    \A x, y \in 1..Len(candidates) : (x < y /\ CloseCentroids(x, y)) => UnionInOutput(x, y)

\* Candidate x was merged into a candidate before w.
ConsumedBefore(x, w) == merged_into[x] # 0 /\ merged_into[x] < w

\* C8, amended: the output holds the union of two candidates x < y whose
\* centroids are closer than 0.05 unless x or y was consumed by a candidate
\* before x; and then the cluster the output has for x holds both.
C8_CloseCentroidsMerged ==
  pc = "done" =>
    \A x, y \in 1..Len(candidates) :
      (x < y /\ CloseCentroids(x, y) /\ ~ConsumedBefore(x, x) /\ ~ConsumedBefore(y, x)) =>
        /\ merged_into[x] = 0
        /\ merged_into[y] = x
        /\ UnionInOutput(x, y)

\* Two candidates with close centroids, neither holding all of the other's
\* members, have been combined into one cluster.
C8_Witness ==
  /\ pc = "done"
  /\ \E x, y \in 1..Len(candidates) :
       /\ x < y
       /\ CloseCentroids(x, y)
       /\ merged_into[y] = x
       /\ ~(Members(candidates[y]) \subseteq Members(candidates[x]))
       /\ ~(Members(candidates[x]) \subseteq Members(candidates[y]))
       /\ UnionInOutput(x, y)

------------------------------------------------------------------------------
(* C9: the label sentinel                                                  *)

\* str.lower(), on the strings of Labels.
Lower(s) == CASE s \in {"None", "NONE"} -> "none" [] OTHER -> s

\* The label is empty or is the sentinel "none" in some letter case.
IsSentinel(description) == description = "" \/ Lower(description) = "none"

\* C9: when _label_and_combine_clusters has returned, a label that is empty
\* or is "none" in any letter case names no bucket of the histogram, and
\* every other label a cluster was given names a bucket that holds the
\* cluster's members.
C9_AsStated ==
  pc = "done" =>
    \A x \in 1..Len(labeled) :
      LET description == labeled[x].description
      IN  IF IsSentinel(description)
            THEN description \notin Keys(histograms)
            ELSE /\ description \in Keys(histograms)
                 /\ Members(labeled[x].cluster)
                      \subseteq Members(Lookup(histograms, description))

------------------------------------------------------------------------------
(* C10: the label union                                                    *)

\* The clusters that were labeled X.
LabeledAs(X) == {x \in 1..Len(labeled) : labeled[x].description = X}

UnionOf(X) == UNION {Members(labeled[x].cluster) : x \in LabeledAs(X)}

NoRepeats(s) == \A i, j \in 1..Len(s) : i # j => s[i] # s[j]

NonIncreasing(s, counts) ==
  \A i \in 1..(Len(s) - 1) : counts[s[i]] >= counts[s[i + 1]]

\* C10: in the histogram _label_and_combine_clusters returns no label is the
\* key of two buckets, and the bucket of a label X holds exactly the members
\* of the clusters that were labeled X, each once, in an order of
\* non-increasing entity count.
C10_LabelUnion ==
  pc = "done" =>
    /\ \A i, j \in 1..Len(histograms) :
         i # j => histograms[i].k # histograms[j].k
    /\ \A i \in 1..Len(histograms) :
         LET X == histograms[i].k
             bucket == histograms[i].v
         IN  /\ LabeledAs(X) # {}
             /\ Members(bucket) = UnionOf(X)
             /\ NoRepeats(bucket)
             /\ NonIncreasing(bucket, entity_counts)

\* A returned histogram has a bucket made of two clusters that share a
\* member, neither holding the other, with entities of different counts.
C10_Witness ==
  /\ pc = "done"
  /\ \E i \in 1..Len(histograms) :
       LET X == histograms[i].k
           bucket == histograms[i].v
       IN  /\ \E x, y \in LabeledAs(X) :
                /\ x # y
                /\ Members(labeled[x].cluster) \cap Members(labeled[y].cluster) # {}
                /\ ~(Members(labeled[x].cluster) \subseteq Members(labeled[y].cluster))
                /\ ~(Members(labeled[y].cluster) \subseteq Members(labeled[x].cluster))
           /\ \E a, b \in Members(bucket) : entity_counts[a] # entity_counts[b]

------------------------------------------------------------------------------
(* C11, C16: exemplar classification                                       *)

\* The neighbor list of a call: the min(|universe|, K) nearest entities.
NeighborList ==
  Take(knn_order,
       IF Len(entities) < n_neighbors THEN Len(entities) ELSE n_neighbors)

\* Entity e is no farther from the exemplars' mean than maxDist * (2 - c),
\* c in tenths; both sides squared.
WithinRadius(e, c) ==
  100 * Dist2(entity_embs[e], exemplar_embs)
    <= (20 - c) * (20 - c) * MaxDist2(exemplar_embs)

\* The length of the longest prefix of the neighbor list within the radius.
LongestPrefixLen(c) ==
  LET fits == {m \in 0..Len(NeighborList) :
                 \A x \in 1..m : WithinRadius(NeighborList[x], c)}
  IN  CHOOSE m \in fits : \A other \in fits : other <= m

\* C11: every call of get_examples_of_label returns the entities of the
\* longest prefix of the neighbor list whose distances are all at most
\* maxDist * (2 - c), nearest first.
C11_ExemplarRadiusPrefix ==
  \A q \in 1..Len(queries) :
    queries[q].answers =
      [x \in 1..LongestPrefixLen(queries[q].confidence) |->
         entities[NeighborList[x]]]

\* A call returned some, and not all, of the neighbor list, out of a
\* universe larger than the list.
C11_Witness ==
  /\ Len(entities) > n_neighbors
  /\ \E q \in 1..Len(queries) :
       /\ queries[q].answers # <<>>
       /\ Len(queries[q].answers) < Len(NeighborList)

\* A call with confidence 1 returned an entity as far from the mean as the
\* farthest exemplar.
C11_WitnessOnRadius ==
  \E q \in 1..Len(queries) :
    /\ queries[q].confidence = 10
    /\ queries[q].answers # <<>>
    /\ MaxDist2(exemplar_embs) > 0
    /\ Dist2(entity_embs[NeighborList[Len(queries[q].answers)]], exemplar_embs)
         = MaxDist2(exemplar_embs)

IsPrefix(s, t) == Len(s) <= Len(t) /\ SubSeq(t, 1, Len(s)) = s

\* C16: of two calls with the same exemplars, entities and neighbor index,
\* the one with the higher confidence returns a prefix of what the other
\* returns.
C16_ConfidenceMonotone ==
  \A x, y \in 1..Len(queries) :
    queries[x].confidence < queries[y].confidence =>
      IsPrefix(queries[y].answers, queries[x].answers)

\* Two calls, the one with the higher confidence returning some entities and
\* fewer than the other.
C16_Witness ==
  \E x, y \in 1..Len(queries) :
    /\ queries[x].confidence < queries[y].confidence
    /\ queries[y].answers # <<>>
    /\ Len(queries[y].answers) < Len(queries[x].answers)

------------------------------------------------------------------------------
(* C12: the end-to-end scenario                                            *)

\* The names of the entities at the positions S.
NamesOf(S) == {entities[x] : x \in S}

\* The result has a cluster with exactly the members S.
InResult(S) ==
  \E o \in 1..Len(deduped_clusters) : Members(deduped_clusters[o]) = NamesOf(S)

\* No cluster of the result has "7" as a member.
SevenInNoCluster ==
  \A o \in 1..Len(deduped_clusters) : "7" \notin Members(deduped_clusters[o])

\* C12: on the seven entities, the clusters that _get_clusters and the
\* centroid merge produce include a cluster of the three animals and a
\* cluster of the three weekdays, and "7" is in no cluster of the result.
C12_AsStated ==
  pc = "done" =>
    /\ InResult(Animals)
    /\ InResult(Weekdays)
    /\ SevenInNoCluster

------------------------------------------------------------------------------
(* C14: the top-K cap                                                      *)

\* How often entity e occurs in the data.
Occurrences(e) ==
  Cardinality({x \in 1..Len(duplicated_entities) : duplicated_entities[x] = e})

\* The entities that occur in the data and are not in the universe.
Dropped == Members(duplicated_entities) \ Members(entities)

\* C14: the entities make_histograms embeds and clusters are at most K
\* distinct entities of the data, and none of them occurs less often than an
\* entity that was dropped.
C14_TopKCap ==
  pc = "done" =>
    /\ Cardinality(Members(entities)) <= TOP_K
    /\ NoRepeats(entities)
    /\ Members(entities) \subseteq Members(duplicated_entities)
    /\ \A e \in Members(entities), d \in Dropped : Occurrences(e) >= Occurrences(d)

\* An entity was dropped although it occurs before a more frequent one that
\* was kept.
C14_Witness ==
  /\ pc = "done"
  /\ \E e \in Members(entities), d \in Dropped :
       /\ Occurrences(e) > Occurrences(d)
       /\ \E x \in 1..Len(duplicated_entities) :
            /\ duplicated_entities[x] = d
            /\ \A y \in 1..x : duplicated_entities[y] # e

------------------------------------------------------------------------------
(* C13: fatal configuration errors                                         *)

\* C13: a run of run_pipeline that a configuration error ended has done
\* nothing to the output directory: it removed nothing, created nothing and
\* wrote no file, and the directory is as the run found it.
C13_FatalErrorNoArtifact ==
  error \in ConfigErrors =>
    /\ ppc = "raised"
    /\ effects = <<>>
    /\ out_dir = out_before

\* A run ended by a recomputed-sample mismatch, with the output of an
\* earlier run still in place.
C13_Witness ==
  /\ error = "sample"
  /\ out_before.exists
  /\ OUTPUT_HISTOGRAMS_FILENAME \in out_dir.files

\* Runs ended by an absent column and by an identity mismatch.
C13_WitnessOthers ==
  error \in {"column", "identity"} /\ out_dir = NoDir

------------------------------------------------------------------------------
(* C15: construction replay                                                *)

\* The last n items of the sequence s, all of s when it has fewer.
LastN(s, n) == IF Len(s) <= n THEN s ELSE SubSeq(s, Len(s) - n + 1, Len(s))

\* C15: right after an LRUCache is constructed from a mapping, its entries
\* are the last `capacity` entries of the mapping, in the mapping's order:
\* all of them when the mapping has at most `capacity` keys.
C15_ConstructionReplay ==
  hist = <<>> => cache = LastN(loaded, capacity)

\* A cache constructed from a mapping with more keys than its capacity.
C15_Witness ==
  /\ hist = <<>>
  /\ Len(loaded) > capacity
  /\ Keys(cache) # Keys(loaded)

\* A cache constructed from a mapping that fits.
C15_WitnessFits ==
  /\ hist = <<>>
  /\ loaded # <<>>
  /\ Len(loaded) <= capacity
  /\ Keys(cache) = Keys(loaded)

------------------------------------------------------------------------------
(* C17: candidate completeness                                             *)

\* The flat clusters of every cut of the tree whose size is in the window,
\* as sets of positions.
FlatClustersInWindow ==
  {B \in UNION {CutBlocks(linkage_tree, c) : c \in 1..Len(linkage_tree)} :
     Cardinality(B) >= MinClusterSize /\ Cardinality(B) <= MaxClusterSize}

\* C17: the list _get_clusters returns has, for every flat cluster of every
\* cut whose size is in the window, a cluster with exactly its members.
C17_AsStated ==
  pc = "done" =>
    \A B \in FlatClustersInWindow :
      \E x \in 1..Len(all_clusters) :
        Members(all_clusters[x]) = {entities[i] : i \in B}

------------------------------------------------------------------------------
(* C18: centroid recomputation                                             *)

\* The members of the list s, once each, in the order of their first
\* occurrence.
RECURSIVE Unique(_)
Unique(s) ==
  IF s = <<>>
    THEN <<>>
    ELSE LET rest == Unique(SubSeq(s, 1, Len(s) - 1))
         IN  IF s[Len(s)] \in Range(rest) THEN rest ELSE Append(rest, s[Len(s)])

\* The inner loop from j on, as it would run if the centroid of the cluster
\* being built were that of its current members.
RECURSIVE CombineFromRecomputed(_, _, _)
CombineFromRecomputed(acc, i, j) ==
  IF j > Len(candidates)
    THEN acc
    ELSE CombineFromRecomputed(
           IF i >= j \/ j \in Range(acc.combined)
             THEN acc
             ELSE IF SimBelowThreshold(
                       Centroid(Unique(acc.cluster), entities, entity_embs),
                       Centroid(candidates[j], entities, entity_embs))
               THEN [cluster |-> acc.cluster \o candidates[j],
                     combined |-> Append(acc.combined, j)]
               ELSE acc,
           i, j + 1)

\* The candidates consumed before the turn of candidate i, in order.
ConsumedBeforeSeq(i) ==
  SelectSeq([x \in 1..Len(candidates) |-> x],
            LAMBDA j : merged_into[j] # 0 /\ merged_into[j] < i)

\* The candidates that are merged into candidate i when centroids are
\* recomputed.
RecomputedMerges(i) ==
  Range(CombineFromRecomputed([cluster |-> candidates[i],
                               combined |-> ConsumedBeforeSeq(i)], i, 1).combined)
    \ Range(ConsumedBeforeSeq(i))

\* C18: every candidate that is not consumed has taken in exactly the
\* candidates it takes in when the centroid of the cluster being built is
\* recomputed from its current members after every union.
C18_AsStated ==
  pc = "done" =>
    \A i \in 1..Len(candidates) :
      merged_into[i] = 0 =>
        {j \in 1..Len(candidates) : merged_into[j] = i} = RecomputedMerges(i)

------------------------------------------------------------------------------
(* C19: the centroid merge is one greedy forward pass                      *)

\* The candidates that were not consumed, in enumeration order.
Unconsumed ==
  SelectSeq([x \in 1..Len(candidates) |-> x], LAMBDA x : merged_into[x] = 0)

\* The candidates consumed by candidate i.
ConsumedBy(i) == {j \in 1..Len(candidates) : merged_into[j] = i}

\* C19: the output has one cluster for every candidate that was not
\* consumed, in enumeration order, holding once each the members of the
\* candidate and of the candidates it consumed; and candidate i consumes j
\* exactly when i was not consumed, j comes after i, j was not consumed
\* before the turn of i and the original centroids of i and j are closer
\* than the threshold. Closeness to a consumed candidate plays no part.
C19_GreedyForwardPass ==
  pc = "done" =>
    /\ Len(deduped_clusters) = Len(Unconsumed)
    /\ \A p \in 1..Len(Unconsumed) :
         /\ NoRepeats(deduped_clusters[p])
         /\ Members(deduped_clusters[p]) =
              Members(candidates[Unconsumed[p]])
                \cup UNION {Members(candidates[j]) : j \in ConsumedBy(Unconsumed[p])}
    /\ \A i, j \in 1..Len(candidates) :
         merged_into[j] = i <=>
           /\ merged_into[i] = 0
           /\ i < j
           /\ ~ConsumedBefore(j, i)
           /\ CloseCentroids(i, j)

\* Candidate i consumed j; a later candidate kk is close to j and not to i,
\* has members that i's output cluster lacks, and got an output cluster of
\* its own.
C19_Witness ==
  /\ pc = "done"
  /\ \E i, j, kk \in 1..Len(candidates) :
       /\ merged_into[j] = i
       /\ i < kk
       /\ CloseCentroids(j, kk)
       /\ ~CloseCentroids(i, kk)
       /\ merged_into[kk] = 0
       /\ \E p \in 1..Len(Unconsumed) :
            /\ Unconsumed[p] = i
            /\ ~(Members(candidates[kk]) \subseteq Members(deduped_clusters[p]))

\* A candidate close to the one whose turn it is was consumed before that
\* turn, and has members the output cluster of the turn does not hold.
C19_WitnessSkipped ==
  /\ pc = "done"
  /\ \E i, j \in 1..Len(candidates) :
       /\ i < j
       /\ merged_into[i] = 0
       /\ ConsumedBefore(j, i)
       /\ CloseCentroids(i, j)
       /\ \E p \in 1..Len(Unconsumed) :
            /\ Unconsumed[p] = i
            /\ ~(Members(candidates[j]) \subseteq Members(deduped_clusters[p]))

------------------------------------------------------------------------------
(* C20: a load reorders the recency of the persisted keys                  *)

\* A manager was constructed from a cache file that holds entries, and since
\* then only texts that were not resident have been embedded.
LoadedNonEmpty == trail.pure /\ trail.persisted # <<>>

\* The cache is as the construction left it.
JustLoaded == LoadedNonEmpty /\ mlast.op = "construct"

\* The first eviction since the load has taken place.
FirstEvictionDone == LoadedNonEmpty /\ trail.evicted # <<>>

\* After the load every persisted entry is resident, the first persisted
\* key is the most recently used and the others keep their order.
LoadPromotesFirstKey ==
  JustLoaded =>
    /\ Entries(cache) = Entries(np_load_item(file).cache)
    /\ KeyList(cache) = Tail(trail.persisted) \o <<trail.persisted[1]>>

\* C20 as stated: the load keeps every entry and makes the first persisted
\* key the most recently used; the next overflowing put evicts the second
\* persisted key.
C20_AsStated ==
  /\ LoadPromotesFirstKey
  /\ FirstEvictionDone =>
       /\ Len(trail.persisted) >= 2
       /\ trail.evicted = <<trail.persisted[2]>>

\* C20, amended: the load keeps every entry and makes the first persisted
\* key the most recently used; the next overflowing put evicts the second
\* persisted key when two or more entries were persisted, and the only
\* persisted key when one was.
C20_LoadReordersRecency ==
  /\ LoadPromotesFirstKey
  /\ FirstEvictionDone =>
       trail.evicted =
         <<trail.persisted[IF Len(trail.persisted) >= 2 THEN 2 ELSE 1]>>

\* Two or more entries were loaded and the first eviction since took the
\* second persisted key.
C20_Witness ==
  /\ FirstEvictionDone
  /\ Len(trail.persisted) >= 2
  /\ trail.evicted = <<trail.persisted[2]>>
  /\ trail.persisted[1] \in Keys(cache)

\* A load has just changed the order of two or more persisted keys.
C20_WitnessLoad ==
  /\ JustLoaded
  /\ Len(trail.persisted) >= 2
  /\ KeyList(cache) # trail.persisted

\* One entry was loaded and the first eviction since took it.
C20_WitnessSingle ==
  /\ FirstEvictionDone
  /\ Len(trail.persisted) = 1
  /\ trail.evicted = trail.persisted

==============================================================================
